---- MODULE Spec2Model ----
(***************************************************************************)
(* Polls service (polls/models.py, serializers.py, services.py, views.py). *)
(* The store holds Poll, Option and Vote rows; every HTTP handler is a     *)
(* request that runs its database statements one at a time, so statements  *)
(* of concurrent requests interleave (no ATOMIC_REQUESTS, no explicit      *)
(* transaction in the handlers).                                           *)
(***************************************************************************)
EXTENDS Integers, Sequences, FiniteSets, TLC

(* ------------------------------ bounds --------------------------------- *)
MaxPolls == 2
MaxOptions == 2
MaxOrder == 0
MaxTime == 1
MaxVotes == 2
NumReq == 2
MaxRequests == 3
MaxVoters == 3
MaxListed == 3
MaxListedOrder == 1
NumRaceReq == 3

PollIds == 1..MaxPolls
OptionIds == 1..(MaxPolls * MaxOptions)
Req == 1..NumReq
Times == 0..MaxTime

\* expires_at is nullable: {} is None, {t} is the datetime t.
Expiry == {{}} \cup {{t} : t \in Times \ {MaxTime}}

\* Strings are sequences of characters. A request body gives title and
\* description as a set: {} when the key is absent, {text} when it is given.
PlainText == <<"a">>

\* The bodies of create and edit requests with a plain title and no
\* description.
PollRecords ==
  [title : {{PlainText}}, description : {{}}, is_active : BOOLEAN, expires_at : Expiry]

RECURSIVE SeqsUpTo(_, _)
SeqsUpTo(S, n) ==
  IF n = 0 THEN {<<>>}
  ELSE LET shorter == SeqsUpTo(S, n - 1)
       IN shorter \cup {Append(s, x) : s \in shorter, x \in S}

RECURSIVE Descending(_)
Descending(s) == Len(s) < 2 \/ (s[1] >= s[2] /\ Descending(Tail(s)))

\* The display orders of the "options" lists a create request may carry.
\* Lists in non-ascending order only: ids are given in list order, so these
\* are the lists on which sorting by (order, id) has something to do.
OrderLists == {s \in SeqsUpTo(0..MaxOrder, MaxOptions) : Descending(s)}

\* The "options" lists of create requests with plain option texts.
OptionLists ==
  {[i \in DOMAIN s |-> [text |-> PlainText, order |-> s[i]]] : s \in OrderLists}

(* --------------------------- request signals --------------------------- *)
\* Strings are sequences of symbols; an absent header or address is <<>>.
Clients ==
  { [is_authenticated |-> TRUE,  user_id |-> <<"7">>, xff |-> <<>>, remote |-> <<"a">>],
    [is_authenticated |-> FALSE, user_id |-> <<>>,    xff |-> <<>>, remote |-> <<>>] }

RECURSIVE FirstField(_)
\* x_forwarded_for.split(',')[0]
FirstField(s) ==
  IF s = <<>> \/ Head(s) = "," THEN <<>> ELSE <<Head(s)>> \o FirstField(Tail(s))

RECURSIVE LStrip(_)
LStrip(s) == IF s # <<>> /\ Head(s) = " " THEN LStrip(Tail(s)) ELSE s

RECURSIVE RStrip(_)
RStrip(s) ==
  IF s # <<>> /\ s[Len(s)] = " " THEN RStrip(SubSeq(s, 1, Len(s) - 1)) ELSE s

\* str.strip()
Strip(s) == RStrip(LStrip(s))

\* The ip computed by get_voter_identifier (services.py 24-29).
ClientIp(c) == IF c.xff # <<>> THEN Strip(FirstField(c.xff)) ELSE c.remote

\* get_voter_identifier reaches the session fallback (services.py 36-37).
UsesSession(c) == ~c.is_authenticated /\ ClientIp(c) = <<>>

\* request.session.create(): a key that no session of the store has. Sessions
\* are never removed, so the keys given out so far are counted.
NewSessionKey(store) ==
  <<"k", ToString(Cardinality({c \in DOMAIN store : store[c] # <<>>}) + 1)>>

\* Mutant of session_key: a session is created on every call.
session_key_AlwaysCreate(c, store) == NewSessionKey(store)

\* The session key of client c after services.py 36-37: created only when the
\* session has none.
session_key(c, store) == IF store[c] = <<>> THEN NewSessionKey(store) ELSE store[c]

\* services.py get_voter_identifier; key is the session key after line 37.
get_voter_identifier(c, key) ==
  IF c.is_authenticated THEN <<"user_">> \o c.user_id
  ELSE IF ClientIp(c) # <<>> THEN <<"ip_">> \o ClientIp(c)
  ELSE <<"session_">> \o key

(* ------------------------------ validators ---------------------------- *)
TitleMaxLength == 200
DescriptionMaxLength == 1000
OptionTextMaxLength == 200
MinOptions == 2

Repeat(c, n) == [i \in 1..n |-> c]

Letters == {"a", "b", "c", "i", "p", "r", "s", "t", "S", "C", "R", "I", "P", "T"}

\* str.lower() on one character (re.IGNORECASE).
LowerChar(c) ==
  CASE c = "S" -> "s" [] c = "C" -> "c" [] c = "R" -> "r"
    [] c = "I" -> "i" [] c = "P" -> "p" [] c = "T" -> "t" [] OTHER -> c

Lower(s) == [i \in DOMAIN s |-> LowerChar(s[i])]

\* The text after a "<" opens a tag: a start tag, an end tag, a declaration or
\* a processing instruction. Any other "<" is character data.
OpensTag(rest) ==
  /\ rest # <<>>
  /\ \/ Head(rest) \in Letters
     \/ Head(rest) \in {"!", "?"}
     \/ Head(rest) = "/" /\ Len(rest) >= 2 /\ rest[2] \in Letters

RECURSIVE StripOnce(_)
\* One pass over the text: every tag that is closed by a ">" is dropped.
StripOnce(s) ==
  IF s = <<>> THEN <<>>
  ELSE IF Head(s) = "<" /\ OpensTag(Tail(s)) /\ \E j \in DOMAIN s : s[j] = ">"
  THEN LET close == CHOOSE j \in DOMAIN s :
                      s[j] = ">" /\ \A k \in 1..(j - 1) : s[k] # ">"
       IN StripOnce(SubSeq(s, close + 1, Len(s)))
  ELSE <<Head(s)>> \o StripOnce(Tail(s))

\* Mutant of strip_tags: the text comes back as it went in.
strip_tags_Identity(s) == s

\* django.utils.html.strip_tags as validators.py 14 uses it: a text without
\* "<" or without ">" is returned as it is.
strip_tags(s) ==
  IF (\A i \in DOMAIN s : s[i] # "<") \/ (\A i \in DOMAIN s : s[i] # ">")
  THEN s ELSE StripOnce(s)

\* validators.py validate_no_html, 8-19: TRUE when no error is raised.
validate_no_html(value) == value = strip_tags(value)

\* validators.py validate_no_script_tags, 22-34: TRUE when the pattern
\* <script[\s\S]*?>[\s\S]*?</script> is not found.
validate_no_script_tags(value) ==
  ~ \E i \in DOMAIN value :
        /\ value[i] = "<"
        /\ i + 6 <= Len(value)
        /\ Lower(SubSeq(value, i, i + 6)) = <<"<", "s", "c", "r", "i", "p", "t">>
        /\ \E j \in (i + 7)..Len(value) :
             /\ value[j] = ">"
             /\ \E k \in (j + 1)..(Len(value) - 8) :
                  Lower(SubSeq(value, k, k + 8))
                    = <<"<", "/", "s", "c", "r", "i", "p", "t", ">">>

\* A serializer CharField with max_length: the value is trimmed, must not be
\* blank and must not exceed the maximum. TRUE when no error is raised.
CharFieldValid(raw, max_length) ==
  Strip(raw) # <<>> /\ Len(Strip(raw)) <= max_length

\* serializers.py PollCreateSerializer.validate_title, 48-62.
validate_title(value) ==
  /\ Strip(value) # <<>>
  /\ validate_no_html(Strip(value))
  /\ validate_no_script_tags(Strip(value))
  /\ Len(Strip(value)) <= TitleMaxLength

\* serializers.py PollCreateSerializer.validate_description, 64-74.
validate_description(value) ==
  value = <<>> \/ /\ validate_no_html(Strip(value))
                  /\ validate_no_script_tags(Strip(value))
                  /\ Len(Strip(value)) <= DescriptionMaxLength

\* serializers.py PollCreateSerializer.validate_options, 76-89.
validate_options(value) ==
  /\ Len(value) >= MinOptions
  /\ \A i \in DOMAIN value :
       validate_no_html(Strip(value[i].text)) /\ validate_no_script_tags(Strip(value[i].text))

\* PollCreateSerializer.is_valid: the fields (title required; description
\* optional, may be blank; each option's text a CharField of the Option model),
\* then the validate_<field> methods.
PollCreateSerializer_is_valid(data, opts) ==
  /\ data.title # {}
  /\ \A t \in data.title : CharFieldValid(t, TitleMaxLength) /\ validate_title(Strip(t))
  /\ \A d \in data.description : validate_description(Strip(d))
  /\ \A i \in DOMAIN opts : CharFieldValid(opts[i].text, OptionTextMaxLength)
  /\ validate_options(opts)

\* PollDetailSerializer.is_valid (serializers.py 28-36): the model fields
\* alone; title is required unless the update is partial (PATCH).
PollDetailSerializer_is_valid(data, partial) ==
  /\ data.title # {} \/ partial
  /\ \A t \in data.title : CharFieldValid(t, TitleMaxLength)

\* The Poll instance built from validated data over the instance base:
\* fields that are given replace those of base.
WithFields(base, data) ==
  [base EXCEPT
     !.title = IF data.title = {} THEN @ ELSE Strip(CHOOSE t \in data.title : TRUE),
     !.description = IF data.description = {} THEN @
                     ELSE Strip(CHOOSE d \in data.description : TRUE),
     !.is_active = data.is_active,
     !.expires_at = data.expires_at]

\* A Poll instance with the model's defaults (models.py 7-15) and created_at t.
NewPoll(t) ==
  [title |-> <<>>, description |-> <<>>, is_active |-> TRUE, expires_at |-> {},
   created_at |-> t]

(* ------------------------------- state --------------------------------- *)
VARIABLES
  polls,        \* Poll table: id -> [title, description, is_active, expires_at, created_at]
  options,      \* Option table: id -> [poll, text, order]
  votes,        \* Vote table: set of rows [id, poll, option, voter_identifier]
  nextPollId, nextOptionId, nextVoteId,   \* AutoField sequences
  now,          \* timezone.now()
  sessions,     \* session store: client -> session key (<<>>: none yet)
  pc,           \* per request: the statement it is about to run
  ctx,          \* per request: the handler's local variables
  response,     \* the response sent last (NoResponse: none yet)
  started       \* number of requests received so far

vars == <<polls, options, votes, nextPollId, nextOptionId, nextVoteId, now,
          sessions, pc, ctx, response, started>>

db == <<polls, options, votes>>

NoCtx == [poll_id |-> 0, option_id |-> 0, voter |-> <<>>, option_poll |-> 0,
          todo |-> <<>>, rows |-> << >>, total |-> 0, data |-> {}, instance |-> {}]

NoResponse == [result |-> "none", error |-> "", poll_id |-> 0, option_id |-> 0,
               voter_identifier |-> <<>>, total_votes |-> 0, options |-> <<>>]

Respond(kind) == [NoResponse EXCEPT !.result = kind]

Init ==
  /\ polls = << >>
  /\ options = << >>
  /\ votes = {}
  /\ nextPollId = 1
  /\ nextOptionId = 1
  /\ nextVoteId = 1
  /\ now = 0
  /\ sessions = [c \in Clients |-> <<>>]
  /\ pc = [r \in Req |-> "idle"]
  /\ ctx = [r \in Req |-> NoCtx]
  /\ response = NoResponse
  /\ started = 0

\* Request slot r is free and takes the next request.
Accept(r) ==
  /\ pc[r] = "idle"
  /\ started < MaxRequests
  /\ started' = started + 1

\* The handler of request r returns: its locals are gone, the response stays.
Finish(r, resp) ==
  /\ pc' = [pc EXCEPT ![r] = "idle"]
  /\ ctx' = [ctx EXCEPT ![r] = NoCtx]
  /\ response' = resp

\* The handler of request r goes on to statement next with locals c.
Goto(r, next, c) ==
  /\ pc' = [pc EXCEPT ![r] = next]
  /\ ctx' = [ctx EXCEPT ![r] = c]
  /\ UNCHANGED response

Remove(f, ids) == [x \in (DOMAIN f) \ ids |-> f[x]]
Put(f, id, row) == [x \in (DOMAIN f) \cup {id} |-> IF x = id THEN row ELSE f[x]]

(* ------------------------------- models -------------------------------- *)
\* Mutant of is_expired: the comparison includes the expiry instant itself.
is_expired_Inclusive(poll, t) ==
  IF poll.expires_at = {} THEN FALSE ELSE \E e \in poll.expires_at : t >= e

\* Poll.is_expired (models.py 27-32) at clock t = timezone.now().
is_expired(poll, t) ==
  IF poll.expires_at = {} THEN FALSE ELSE \E e \in poll.expires_at : t > e

\* Mutant of user_has_voted: the votes are not filtered by identifier.
user_has_voted_AnyVoter(p, voter) ==
  \E v \in votes : v.poll = p

\* Mutant of user_has_voted: the votes are not filtered by poll.
user_has_voted_AnyPoll(p, voter) ==
  \E v \in votes : v.voter_identifier = voter

\* Poll.user_has_voted (models.py 34-36).
user_has_voted(p, voter) ==
  \E v \in votes : v.poll = p /\ v.voter_identifier = voter

\* Mutant of VoteViolations: the foreign keys are not enforced by the store.
VoteViolations_NoForeignKey(p, o, voter) ==
  IF user_has_voted(p, voter) THEN {"unique_vote_per_poll"} ELSE {}

\* Mutant of VoteViolations: Vote.Meta declares no UniqueConstraint.
VoteViolations_NoUnique(p, o, voter) ==
  IF p \in DOMAIN polls /\ o \in DOMAIN options THEN {} ELSE {"foreign_key"}

\* The constraints the store checks on INSERT INTO vote: the two foreign keys
\* (models.py 71-80) and unique_vote_per_poll (models.py 88-93).
VoteViolations(p, o, voter) ==
  (IF p \in DOMAIN polls /\ o \in DOMAIN options THEN {} ELSE {"foreign_key"})
  \cup (IF user_has_voted(p, voter) THEN {"unique_vote_per_poll"} ELSE {})

(* ------------------------------ cast vote ------------------------------ *)
\* views.py vote, 211-221: get_object (404), get_voter_identifier.
vote(r, c, p, o) ==
  /\ Accept(r)
  /\ UNCHANGED <<db, nextPollId, nextOptionId, nextVoteId, now>>
  /\ IF p \notin DOMAIN polls
     THEN Finish(r, Respond("NotFound")) /\ UNCHANGED sessions
     ELSE LET key == IF UsesSession(c) THEN session_key(c, sessions) ELSE sessions[c]
          IN /\ sessions' = IF UsesSession(c)
                            THEN [sessions EXCEPT ![c] = key] ELSE sessions
             /\ Goto(r, "validate_option_id",
                     [NoCtx EXCEPT !.poll_id = p, !.option_id = o,
                                   !.voter = get_voter_identifier(c, key)])

\* Mutant of validate_option_id: the lookup is filter(id=value).first(), which
\* gives None instead of raising, and the validator goes on.
validate_option_id_NoRaise(r) ==
  /\ pc[r] = "validate_option_id"
  /\ UNCHANGED <<started, db, nextPollId, nextOptionId, nextVoteId, now, sessions>>
  /\ Goto(r, "validate",
          [ctx[r] EXCEPT !.option_poll =
             IF ctx[r].option_id \in DOMAIN options
             THEN options[ctx[r].option_id].poll ELSE 0])

\* serializers.py VoteSerializer.validate_option_id, 109-116.
validate_option_id(r) ==
  /\ pc[r] = "validate_option_id"
  /\ UNCHANGED <<started, db, nextPollId, nextOptionId, nextVoteId, now, sessions>>
  /\ IF ctx[r].option_id \in DOMAIN options
     THEN Goto(r, "validate",
               [ctx[r] EXCEPT !.option_poll = options[ctx[r].option_id].poll])
     ELSE Finish(r, Respond("OptionNotFound"))

\* Mutant of PollChecks: the is_active check is missing.
PollChecks_NoActive(poll, option_poll, poll_id, t) ==
  IF is_expired(poll, t) THEN "PollExpired"
  ELSE IF option_poll # poll_id THEN "OptionPollMismatch"
  ELSE "ok"

\* Mutant of PollChecks: the option's poll is not compared with the URL's.
PollChecks_NoMismatch(poll, option_poll, poll_id, t) ==
  IF ~poll.is_active THEN "PollInactive"
  ELSE IF is_expired(poll, t) THEN "PollExpired"
  ELSE "ok"

\* serializers.py VoteSerializer.validate, 120-134: the checks on the poll, in
\* the order the code runs them; "ok" when all pass.
PollChecks(poll, option_poll, poll_id, t) ==
  IF ~poll.is_active THEN "PollInactive"
  ELSE IF is_expired(poll, t) THEN "PollExpired"
  ELSE IF option_poll # poll_id THEN "OptionPollMismatch"
  ELSE "ok"

\* Mutant of validate: the poll checked and voted in is the poll of the URL,
\* and the option's poll is not compared with it.
validate_UrlPoll(r) ==
  /\ pc[r] = "validate"
  /\ UNCHANGED <<started, db, nextPollId, nextOptionId, nextVoteId, now, sessions>>
  /\ IF ctx[r].poll_id \notin DOMAIN polls
     THEN Finish(r, Respond("DoesNotExist"))
     ELSE LET check == PollChecks(polls[ctx[r].poll_id], ctx[r].poll_id,
                                  ctx[r].poll_id, now)
          IN IF check = "ok"
             THEN Goto(r, "validate_duplicate",
                       [ctx[r] EXCEPT !.option_poll = ctx[r].poll_id])
             ELSE Finish(r, Respond(check))

\* serializers.py VoteSerializer.validate, 118-134: poll = option.poll is
\* fetched from the store (Poll.DoesNotExist if it is gone), then checked.
validate(r) ==
  /\ pc[r] = "validate"
  /\ UNCHANGED <<started, db, nextPollId, nextOptionId, nextVoteId, now, sessions>>
  /\ IF ctx[r].option_poll \notin DOMAIN polls
     THEN Finish(r, Respond("DoesNotExist"))
     ELSE LET check == PollChecks(polls[ctx[r].option_poll], ctx[r].option_poll,
                                  ctx[r].poll_id, now)
          IN IF check = "ok"
             THEN Goto(r, "validate_duplicate", ctx[r])
             ELSE Finish(r, Respond(check))

\* Mutant of validate_duplicate: the pre-check is gone, every request goes on
\* to the INSERT.
validate_duplicate_Skipped(r) ==
  /\ pc[r] = "validate_duplicate"
  /\ UNCHANGED <<started, db, nextPollId, nextOptionId, nextVoteId, now, sessions>>
  /\ Goto(r, "create_vote", ctx[r])

\* Mutant of validate_duplicate: a duplicate moves the voter's row to the
\* requested option (update_or_create) before it is reported.
validate_duplicate_Upsert(r) ==
  /\ pc[r] = "validate_duplicate"
  /\ UNCHANGED <<started, polls, options, nextPollId, nextOptionId, nextVoteId, now, sessions>>
  /\ IF user_has_voted(ctx[r].option_poll, ctx[r].voter)
     THEN /\ votes' = {IF v.poll = ctx[r].option_poll /\ v.voter_identifier = ctx[r].voter
                       THEN [v EXCEPT !.option = ctx[r].option_id] ELSE v : v \in votes}
          /\ Finish(r, Respond("DuplicateVote"))
     ELSE /\ UNCHANGED votes
          /\ Goto(r, "create_vote", ctx[r])

\* serializers.py VoteSerializer.validate, 136-145: the duplicate pre-check.
validate_duplicate(r) ==
  /\ pc[r] = "validate_duplicate"
  /\ UNCHANGED <<started, db, nextPollId, nextOptionId, nextVoteId, now, sessions>>
  /\ IF user_has_voted(ctx[r].option_poll, ctx[r].voter)
     THEN Finish(r, Respond("DuplicateVote"))
     ELSE Goto(r, "create_vote", ctx[r])

\* The response of the view to the outcome of the INSERT (views.py 223-233):
\* an IntegrityError is not caught anywhere and surfaces as a server error.
InsertResponse(violations) ==
  IF violations = {} THEN "Created" ELSE "IntegrityError"

\* serializers.py VoteSerializer.create, 147-151, and views.py 223-233.
create_vote(r) ==
  /\ pc[r] = "create_vote"
  /\ nextVoteId <= MaxVotes
  /\ UNCHANGED <<started, polls, options, nextPollId, nextOptionId, now, sessions>>
  /\ LET bad == VoteViolations(ctx[r].option_poll, ctx[r].option_id, ctx[r].voter)
     IN IF bad = {}
        THEN /\ votes' = votes \cup
                   {[id |-> nextVoteId, poll |-> ctx[r].option_poll,
                     option |-> ctx[r].option_id,
                     voter_identifier |-> ctx[r].voter]}
             /\ nextVoteId' = nextVoteId + 1
             /\ Finish(r, [Respond(InsertResponse(bad)) EXCEPT
                             !.poll_id = ctx[r].option_poll,
                             !.option_id = ctx[r].option_id])
        ELSE /\ UNCHANGED <<votes, nextVoteId>>
             /\ \E e \in bad :
                  Finish(r, [Respond(InsertResponse(bad)) EXCEPT !.error = e])

(* ------------------------------ has_voted ------------------------------ *)
\* views.py has_voted, 358-359: get_object (404), get_voter_identifier.
has_voted(r, c, p) ==
  /\ Accept(r)
  /\ UNCHANGED <<db, nextPollId, nextOptionId, nextVoteId, now>>
  /\ IF p \notin DOMAIN polls
     THEN Finish(r, Respond("NotFound")) /\ UNCHANGED sessions
     ELSE LET key == IF UsesSession(c) THEN session_key(c, sessions) ELSE sessions[c]
          IN /\ sessions' = IF UsesSession(c)
                            THEN [sessions EXCEPT ![c] = key] ELSE sessions
             /\ Goto(r, "has_voted_query",
                     [NoCtx EXCEPT !.poll_id = p,
                                   !.voter = get_voter_identifier(c, key)])

\* views.py has_voted, 361-366: the exists() query and the response.
has_voted_query(r) ==
  /\ pc[r] = "has_voted_query"
  /\ UNCHANGED <<started, db, nextPollId, nextOptionId, nextVoteId, now, sessions>>
  /\ Finish(r, [Respond(IF user_has_voted(ctx[r].poll_id, ctx[r].voter)
                        THEN "HasVoted" ELSE "HasNotVoted")
                EXCEPT !.voter_identifier = ctx[r].voter])

(* ------------------------------- results ------------------------------- *)
\* Mutant of votes_total: the count is over the votes of the option's poll.
votes_total_WholePoll(o) ==
  Cardinality({v \in votes : o \in DOMAIN options /\ v.poll = options[o].poll})

\* Count('votes') of the annotate query (views.py 289-291, models.py 38-41).
votes_total(o) == Cardinality({v \in votes : v.option = o})

RECURSIVE SumOver(_, _)
SumOver(f, S) ==
  IF S = {} THEN 0
  ELSE LET x == CHOOSE y \in S : TRUE IN f[x] + SumOver(f, S \ {x})

\* round(n / d, 0) as Python rounds: to nearest, ties to even.
RoundHalfEven(n, d) ==
  LET q == n \div d
      rem == n % d
  IN IF 2 * rem < d THEN q
     ELSE IF 2 * rem > d THEN q + 1
     ELSE IF q % 2 = 0 THEN q ELSE q + 1

\* Mutant of get_percentage: the quotient is truncated, not rounded.
get_percentage_Truncated(vote_count, total_votes) ==
  IF total_votes = 0 THEN 0 ELSE (vote_count * 10000) \div total_votes

\* serializers.py OptionResultSerializer.get_percentage, 167-173, in
\* hundredths of a percent.
get_percentage(vote_count, total_votes) ==
  IF total_votes = 0 THEN 0 ELSE RoundHalfEven(vote_count * 10000, total_votes)

\* Mutant of OptionBefore: the ordering is by id alone.
OptionBefore_ByIdOnly(a, b) == a < b

\* Option.Meta.ordering = ['order', 'id'] (models.py 54-55).
OptionBefore(a, b) ==
  \/ options[a].order < options[b].order
  \/ options[a].order = options[b].order /\ a < b

RECURSIVE Ordered(_)
\* The options S in Meta.ordering.
Ordered(S) ==
  IF S = {} THEN <<>>
  ELSE LET first == CHOOSE a \in S : \A b \in S \ {a} : OptionBefore(a, b)
       IN <<first>> \o Ordered(S \ {first})

\* views.py results, 286: get_object (404).
results(r, p) ==
  /\ Accept(r)
  /\ UNCHANGED <<db, nextPollId, nextOptionId, nextVoteId, now, sessions>>
  /\ IF p \notin DOMAIN polls
     THEN Finish(r, Respond("NotFound"))
     ELSE Goto(r, "results_annotate", [NoCtx EXCEPT !.poll_id = p])

\* views.py results, 289-298: the aggregate query and its sum. The rows are
\* kept as id -> row: nothing after this point reads their sequence.
results_annotate(r) ==
  /\ pc[r] = "results_annotate"
  /\ UNCHANGED <<started, db, nextPollId, nextOptionId, nextVoteId, now, sessions>>
  /\ LET mine == {o \in DOMAIN options : options[o].poll = ctx[r].poll_id}
     IN Goto(r, "results_set",
             [ctx[r] EXCEPT !.rows = [o \in mine |-> options[o]],
                            !.total = SumOver([o \in mine |-> votes_total(o)], mine)])

\* views.py results, 301-302: poll.options.set(rows, bulk=False). The foreign
\* key is not nullable, so set() is add(): in one transaction, each row gets
\* poll = this poll and is saved (UPDATE, or INSERT when the row is gone; the
\* INSERT needs the poll row).
results_set(r) ==
  /\ pc[r] = "results_set"
  /\ UNCHANGED <<started, polls, votes, nextPollId, nextOptionId, nextVoteId, now, sessions>>
  /\ LET rows == ctx[r].rows
         saved == [o \in DOMAIN rows |-> [rows[o] EXCEPT !.poll = ctx[r].poll_id]]
     IN IF (DOMAIN rows) \subseteq (DOMAIN options) \/ ctx[r].poll_id \in DOMAIN polls
        THEN /\ options' = [o \in (DOMAIN options) \cup (DOMAIN rows) |->
                              IF o \in DOMAIN rows THEN saved[o] ELSE options[o]]
             /\ Goto(r, "results_serialize", [ctx[r] EXCEPT !.rows = << >>])
        ELSE /\ UNCHANGED options
             /\ Finish(r, Respond("IntegrityError"))

\* views.py results, 305-310, serializers.py 155-184: PollResultSerializer
\* reads poll.options again (Meta.ordering); each option has no votes_total
\* attribute, so get_vote_count falls back to Option.vote_count
\* (models.py 63-66); the percentage is taken against context total_votes.
results_serialize(r) ==
  /\ pc[r] = "results_serialize"
  /\ UNCHANGED <<started, db, nextPollId, nextOptionId, nextVoteId, now, sessions>>
  /\ LET mine == Ordered({o \in DOMAIN options : options[o].poll = ctx[r].poll_id})
     IN Finish(r, [Respond("OK") EXCEPT
                    !.poll_id = ctx[r].poll_id,
                    !.total_votes = ctx[r].total,
                    !.options = [i \in 1..Len(mine) |->
                       [id |-> mine[i],
                        vote_count |-> votes_total(mine[i]),
                        percentage |-> get_percentage(votes_total(mine[i]),
                                                      ctx[r].total)]]])

(* -------------------------------- detail ------------------------------- *)
\* views.py retrieve, 84-85: get_object on the queryset of get_queryset
\* (41-52) reads the Poll row (404).
retrieve(r, p) ==
  /\ Accept(r)
  /\ UNCHANGED <<db, nextPollId, nextOptionId, nextVoteId, now, sessions>>
  /\ IF p \notin DOMAIN polls
     THEN Finish(r, Respond("NotFound"))
     ELSE Goto(r, "retrieve_options", [NoCtx EXCEPT !.poll_id = p])

\* The prefetch of 'options' (views.py 47) reads the poll's Option rows in
\* Meta.ordering; PollDetailSerializer (serializers.py 8-15, 28-36) lists
\* each with id, text, order and vote_count (models.py 63-66).
retrieve_options(r) ==
  /\ pc[r] = "retrieve_options"
  /\ UNCHANGED <<started, db, nextPollId, nextOptionId, nextVoteId, now, sessions>>
  /\ LET mine == Ordered({o \in DOMAIN options : options[o].poll = ctx[r].poll_id})
     IN Finish(r, [Respond("Retrieved") EXCEPT
                    !.poll_id = ctx[r].poll_id,
                    !.options = [i \in 1..Len(mine) |->
                       [id |-> mine[i],
                        text |-> options[mine[i]].text,
                        order |-> options[mine[i]].order,
                        vote_count |-> votes_total(mine[i])]]])

(* ----------------------------- poll lifecycle -------------------------- *)
\* views.py create, 152: the request arrives with its body. A request is
\* taken only while an id is left for every poll a pending create may insert.
create(r, data, opts) ==
  /\ Accept(r)
  /\ nextPollId + Cardinality({q \in Req : pc[q] = "create_poll"}) <= MaxPolls
  /\ UNCHANGED <<db, nextPollId, nextOptionId, nextVoteId, now, sessions>>
  /\ Goto(r, "create_poll", [NoCtx EXCEPT !.data = {data}, !.todo = opts])

\* views.py create 153-154 and serializers.py PollCreateSerializer.create
\* 93-94: is_valid (400 when it fails), then the Poll INSERT.
create_poll(r) ==
  /\ pc[r] = "create_poll"
  /\ UNCHANGED <<started, options, votes, nextOptionId, nextVoteId, now, sessions>>
  /\ LET data == CHOOSE d \in ctx[r].data : TRUE
     IN IF ~PollCreateSerializer_is_valid(data, ctx[r].todo)
        THEN Finish(r, Respond("ValidationError")) /\ UNCHANGED <<polls, nextPollId>>
        ELSE /\ polls' = Put(polls, nextPollId, WithFields(NewPoll(now), data))
             /\ nextPollId' = nextPollId + 1
             /\ Goto(r, "create_options",
                     [NoCtx EXCEPT !.poll_id = nextPollId,
                                   !.todo = [i \in DOMAIN ctx[r].todo |->
                                               [ctx[r].todo[i] EXCEPT !.text = Strip(@)]]])

\* serializers.py PollCreateSerializer.create 96-97: one Option INSERT per
\* loop iteration; views.py 157-158 when the loop is over.
create_options(r) ==
  /\ pc[r] = "create_options"
  /\ UNCHANGED <<started, polls, votes, nextPollId, nextVoteId, now, sessions>>
  /\ IF ctx[r].todo = <<>>
     THEN Finish(r, Respond("Created")) /\ UNCHANGED <<options, nextOptionId>>
     ELSE IF ctx[r].poll_id \notin DOMAIN polls
     THEN Finish(r, Respond("IntegrityError")) /\ UNCHANGED <<options, nextOptionId>>
     ELSE /\ options' = Put(options, nextOptionId,
                            [poll |-> ctx[r].poll_id, text |-> Head(ctx[r].todo).text,
                             order |-> Head(ctx[r].todo).order])
          /\ nextOptionId' = nextOptionId + 1
          /\ Goto(r, "create_options", [ctx[r] EXCEPT !.todo = Tail(ctx[r].todo)])

\* views.py update / partial_update 97-111: get_object reads the instance.
update(r, p) ==
  /\ Accept(r)
  /\ UNCHANGED <<db, nextPollId, nextOptionId, nextVoteId, now, sessions>>
  /\ IF p \notin DOMAIN polls
     THEN Finish(r, Respond("NotFound"))
     ELSE Goto(r, "update_save", [NoCtx EXCEPT !.poll_id = p, !.instance = {polls[p]}])

\* The rest of the edit: PollDetailSerializer.is_valid (400 when it fails),
\* then serializer.save() -> instance.save(): the fields given are set on the
\* instance that was read, and all its columns are written by an UPDATE by
\* primary key; when the UPDATE matches no row the instance is INSERTed, with
\* created_at (auto_now_add, models.py 9) taken from the clock.
update_save(r, data, partial) ==
  /\ pc[r] = "update_save"
  /\ UNCHANGED <<started, options, votes, nextPollId, nextOptionId, nextVoteId, now, sessions>>
  /\ IF ~PollDetailSerializer_is_valid(data, partial)
     THEN Finish(r, Respond("ValidationError")) /\ UNCHANGED polls
     ELSE LET p == ctx[r].poll_id
              instance == WithFields(CHOOSE i \in ctx[r].instance : TRUE, data)
          IN /\ polls' = IF p \in DOMAIN polls
                         THEN Put(polls, p, instance)
                         ELSE Put(polls, p, [instance EXCEPT !.created_at = now])
             /\ Finish(r, Respond("OK"))

\* views.py destroy 121-122: get_object, then delete with on_delete=CASCADE
\* (models.py 46-50, 71-80).
destroy(r, p) ==
  /\ Accept(r)
  /\ UNCHANGED <<nextPollId, nextOptionId, nextVoteId, now, sessions>>
  /\ IF p \notin DOMAIN polls
     THEN Finish(r, Respond("NotFound")) /\ UNCHANGED db
     ELSE LET gone == {o \in DOMAIN options : options[o].poll = p}
          IN /\ polls' = Remove(polls, {p})
             /\ options' = Remove(options, gone)
             /\ votes' = {v \in votes : v.poll # p /\ v.option \notin gone}
             /\ Finish(r, Respond("NoContent"))

\* The clock advances.
Tick ==
  /\ now < MaxTime
  /\ now' = now + 1
  /\ UNCHANGED <<db, nextPollId, nextOptionId, nextVoteId, sessions, pc, ctx,
                 response, started>>

Next ==
  \/ \E r \in Req, c \in Clients, p \in PollIds, o \in OptionIds : vote(r, c, p, o)
  \/ \E r \in Req : validate_option_id(r)
  \/ \E r \in Req : validate(r)
  \/ \E r \in Req : validate_duplicate(r)
  \/ \E r \in Req : create_vote(r)
  \/ \E r \in Req, data \in PollRecords, opts \in OptionLists : create(r, data, opts)
  \/ \E r \in Req : create_poll(r)
  \/ \E r \in Req : create_options(r)
  \/ \E r \in Req, p \in PollIds : update(r, p)
  \/ \E r \in Req, data \in PollRecords, partial \in BOOLEAN : update_save(r, data, partial)
  \/ \E r \in Req, p \in PollIds : destroy(r, p)
  \/ \E r \in Req, c \in Clients, p \in PollIds : has_voted(r, c, p)
  \/ \E r \in Req : has_voted_query(r)
  \/ \E r \in Req, p \in PollIds : results(r, p)
  \/ \E r \in Req : results_annotate(r)
  \/ \E r \in Req : results_set(r)
  \/ \E r \in Req : results_serialize(r)
  \/ \E r \in Req, p \in PollIds : retrieve(r, p)
  \/ \E r \in Req : retrieve_options(r)
  \/ Tick

Spec == Init /\ [][Next]_vars

\* The store once one poll with two options has been created through the API
\* (as the setUp of the API tests leaves it), no request in progress.
SeededInit ==
  /\ \E data \in PollRecords : polls = (1 :> WithFields(NewPoll(0), data))
  /\ options = [o \in 1..2 |-> [poll |-> 1, text |-> PlainText, order |-> 0]]
  /\ votes = {}
  /\ nextPollId = 2
  /\ nextOptionId = 3
  /\ nextVoteId = 1
  /\ now = 0
  /\ sessions = [c \in Clients |-> <<>>]
  /\ pc = [r \in Req |-> "idle"]
  /\ ctx = [r \in Req |-> NoCtx]
  /\ response = NoResponse
  /\ started = 0

SpecSeeded == SeededInit /\ [][Next]_vars

(* ------------------------- create and edit bodies ---------------------- *)
MarkupText == <<"<", "b", ">", "a", "<", "/", "b", ">">>
ScriptText ==
  <<"<", "S", "c", "r", "i", "p", "t", ">", "a", "<", "/", "s", "c", "r", "i", "p", "t", ">">>
ComparisonText == <<"a", " ", "<", " ", "b">>

\* Titles and descriptions of request bodies: absent, plain, padded, blank,
\* with markup, with a "<" that opens no tag, at and past the length limits.
FormTitles ==
  { {}, {PlainText}, {<<" ", "a", " ">>}, {<<>>}, {<<" ">>}, {MarkupText},
    {ScriptText}, {ComparisonText}, {Repeat("a", TitleMaxLength)},
    {<<" ">> \o Repeat("a", TitleMaxLength)}, {Repeat("a", TitleMaxLength + 1)} }

FormDescriptions ==
  { {}, {<<>>}, {PlainText}, {MarkupText}, {ScriptText},
    {Repeat("a", DescriptionMaxLength)}, {Repeat("a", DescriptionMaxLength + 1)} }

\* Bodies that vary one field of a plain body.
Forms ==
  {[title |-> t, description |-> {}, is_active |-> TRUE, expires_at |-> {}] :
     t \in FormTitles}
  \cup {[title |-> {PlainText}, description |-> d, is_active |-> TRUE, expires_at |-> {}] :
          d \in FormDescriptions}

\* Bodies of PATCH requests that give the description alone.
DescriptionForms ==
  {[title |-> {}, description |-> d, is_active |-> TRUE, expires_at |-> {}] :
     d \in FormDescriptions}

FormOptionTexts == {PlainText, <<"a", " ">>, <<" ">>, MarkupText, ScriptText}

FormOptionLists ==
  {[i \in DOMAIN s |-> [text |-> s[i], order |-> 0]] :
     s \in SeqsUpTo(FormOptionTexts, MaxOptions)}

\* Create requests that vary one part of a plain request: the body with two
\* plain options, or the options with a plain body.
CreateRequests ==
  {<<data, opts>> \in Forms \X FormOptionLists :
     \/ opts = [i \in 1..MinOptions |-> [text |-> PlainText, order |-> 0]]
     \/ data = [title |-> {PlainText}, description |-> {}, is_active |-> TRUE,
                expires_at |-> {}]}

\* Polls are created, edited and deleted with these bodies.
FormsNext ==
  \/ \E r \in Req, req \in CreateRequests : create(r, req[1], req[2])
  \/ \E r \in Req : create_poll(r)
  \/ \E r \in Req : create_options(r)
  \/ \E r \in Req, p \in PollIds : update(r, p)
  \/ \E r \in Req, data \in Forms \cup DescriptionForms, partial \in BOOLEAN :
       update_save(r, data, partial)
  \/ \E r \in Req, p \in PollIds : destroy(r, p)

SpecForms == Init /\ [][FormsNext]_vars

(* ---------------------------- results on a store ----------------------- *)
\* The identifier of the i-th anonymous voter of a filled store
\* (services.py 33: f"ip_{ip}").
StoreVoter(i) == <<"ip_", ToString(i)>>

\* A store as create and vote requests leave it: polls 1 and 2, options
\* 1..MaxListed spread over them with any display order, and at most one vote
\* per voter; no request in progress.
ResultsInit ==
  /\ polls = [p \in PollIds |-> [NewPoll(0) EXCEPT !.title = PlainText]]
  /\ options \in [1..MaxListed ->
                    [poll : PollIds, text : {PlainText}, order : 0..MaxListedOrder]]
  /\ \E choice \in [1..MaxVoters -> 0..MaxListed] :
       votes = {[id |-> i, poll |-> options[choice[i]].poll, option |-> choice[i],
                 voter_identifier |-> StoreVoter(i)] :
                i \in {j \in 1..MaxVoters : choice[j] # 0}}
  /\ nextPollId = MaxPolls + 1
  /\ nextOptionId = MaxListed + 1
  /\ nextVoteId = MaxVoters + 1
  /\ now = 0
  /\ sessions = [c \in Clients |-> <<>>]
  /\ pc = [r \in Req |-> "idle"]
  /\ ctx = [r \in Req |-> NoCtx]
  /\ response = NoResponse
  /\ started = 0

\* Only results requests are made.
ResultsNext ==
  \/ \E r \in Req, p \in PollIds : results(r, p)
  \/ \E r \in Req : results_annotate(r)
  \/ \E r \in Req : results_set(r)
  \/ \E r \in Req : results_serialize(r)

SpecResults == ResultsInit /\ [][ResultsNext]_vars

(* ------------------------ three requests in flight --------------------- *)
RaceReq == 1..NumRaceReq

\* The store of SeededInit with NumRaceReq request slots.
RaceInit ==
  /\ \E data \in PollRecords : polls = (1 :> WithFields(NewPoll(0), data))
  /\ options = [o \in 1..2 |-> [poll |-> 1, text |-> PlainText, order |-> 0]]
  /\ votes = {}
  /\ nextPollId = 2
  /\ nextOptionId = 3
  /\ nextVoteId = 1
  /\ now = 0
  /\ sessions = [c \in Clients |-> <<>>]
  /\ pc = [r \in RaceReq |-> "idle"]
  /\ ctx = [r \in RaceReq |-> NoCtx]
  /\ response = NoResponse
  /\ started = 0

\* Results, edit and delete requests.
RaceNext ==
  \/ \E r \in RaceReq, p \in PollIds : results(r, p)
  \/ \E r \in RaceReq : results_annotate(r)
  \/ \E r \in RaceReq : results_set(r)
  \/ \E r \in RaceReq : results_serialize(r)
  \/ \E r \in RaceReq, p \in PollIds : update(r, p)
  \/ \E r \in RaceReq, data \in PollRecords, partial \in BOOLEAN :
       update_save(r, data, partial)
  \/ \E r \in RaceReq, p \in PollIds : destroy(r, p)

SpecRace == RaceInit /\ [][RaceNext]_vars

(* ---------------------------- identity resolution --------------------- *)
\* X-Forwarded-For headers: absent, one address, a padded chain, a chain whose
\* first field is empty, a blank header.
ForwardedHeaders ==
  { <<>>, <<"b">>, <<" ", "b", " ", ",", "c">>, <<",", "c">>, <<" ">> }

\* The signals of a request: the user of the request (AnonymousUser has no
\* id), X-Forwarded-For and REMOTE_ADDR.
Callers ==
  {[is_authenticated |-> a, user_id |-> IF a THEN <<"7">> ELSE <<>>, xff |-> x,
    remote |-> m] : a \in BOOLEAN, x \in ForwardedHeaders, m \in {<<>>, <<"a">>}}

\* The store of SeededInit, with a session store for Callers.
IdentityInit ==
  /\ polls = (1 :> [NewPoll(0) EXCEPT !.title = PlainText])
  /\ options = [o \in 1..2 |-> [poll |-> 1, text |-> PlainText, order |-> 0]]
  /\ votes = {}
  /\ nextPollId = 2
  /\ nextOptionId = 3
  /\ nextVoteId = 1
  /\ now = 0
  /\ sessions = [c \in Callers |-> <<>>]
  /\ pc = [r \in Req |-> "idle"]
  /\ ctx = [r \in Req |-> NoCtx]
  /\ response = NoResponse
  /\ started = 0

\* Requests that resolve the caller's identity and read.
IdentityNext ==
  \/ \E r \in Req, c \in Callers, p \in PollIds : has_voted(r, c, p)
  \/ \E r \in Req : has_voted_query(r)

SpecIdentity == IdentityInit /\ [][IdentityNext]_vars

(* ------------------------------- properties ---------------------------- *)
\* Request r runs a statement in this step.
Steps(r) == pc'[r] # pc[r]

\* Request r runs statement at in this step.
StepsAt(r, at) == pc[r] = at /\ pc'[r] # at

\* Request r returns in this step.
Returns(r) == pc[r] # "idle" /\ pc'[r] = "idle"

\* A Vote row of poll p and identity voter exists.
Voted(p, voter) == \E v \in votes : v.poll = p /\ v.voter_identifier = voter

\* now is past the expiry of the poll row.
PastExpiry(poll) == \E e \in poll.expires_at : e < now

VotePcs == {"validate_option_id", "validate", "validate_duplicate", "create_vote"}

AdmissionErrors ==
  {"OptionNotFound", "OptionPollMismatch", "PollInactive", "PollExpired", "DuplicateVote"}

\* C1: in every reachable state no two Vote rows share (poll, voter_identifier).
C1_UniqueVotePerPoll ==
  \A v1, v2 \in votes :
    (v1.poll = v2.poll /\ v1.voter_identifier = v2.voter_identifier) => v1 = v2

\* C1 witness: the store holds a vote and has just refused a second row for
\* the same (poll, voter_identifier).
C1_Witness == votes # {} /\ response.error = "unique_vote_per_poll"

\* C2 (as claimed): an INSERT that conflicts with an existing row of the same
\* (poll, voter identifier), the poll and the option still being there, ends
\* the attempt with DuplicateVote.
C2_ConflictIsDuplicateVote ==
  [][\A r \in Req :
       (/\ StepsAt(r, "create_vote")
        /\ ctx[r].option_poll \in DOMAIN polls
        /\ ctx[r].option_id \in DOMAIN options
        /\ Voted(ctx[r].option_poll, ctx[r].voter))
       => (Returns(r) /\ response'.result = "DuplicateVote")]_vars

\* The first failing check of the poll checks in the specified order
\* (mismatch, inactive, expired) for request r; "ok" when none fails.
SpecifiedCheck(r) ==
  IF ctx[r].option_poll # ctx[r].poll_id THEN "OptionPollMismatch"
  ELSE IF ~polls[ctx[r].poll_id].is_active THEN "PollInactive"
  ELSE IF PastExpiry(polls[ctx[r].poll_id]) THEN "PollExpired"
  ELSE "ok"

\* C3 (as claimed): cast-vote reports the first failing check in the order
\* OptionNotFound, OptionPollMismatch, PollInactive, PollExpired, DuplicateVote.
C3_ErrorsInSpecifiedOrder ==
  [][\A r \in Req :
       /\ (StepsAt(r, "validate_option_id") /\ ctx[r].option_id \notin DOMAIN options)
            => (Returns(r) /\ response'.result = "OptionNotFound")
       /\ (StepsAt(r, "validate") /\ ctx[r].option_poll \in DOMAIN polls)
            => IF SpecifiedCheck(r) = "ok"
               THEN pc'[r] = "validate_duplicate"
               ELSE Returns(r) /\ response'.result = SpecifiedCheck(r)
       /\ (StepsAt(r, "validate_duplicate") /\ Voted(ctx[r].poll_id, ctx[r].voter))
            => (Returns(r) /\ response'.result = "DuplicateVote")]_vars

\* Request r is about to run the poll checks, its option and the option's
\* poll exist, and its target poll exists.
AtPollChecks(r) ==
  /\ StepsAt(r, "validate")
  /\ ctx[r].option_poll \in DOMAIN polls
  /\ ctx[r].poll_id \in DOMAIN polls

\* C4 (as claimed): a cast-vote whose target poll is inactive fails with
\* PollInactive whatever existing option is supplied, and creates no Vote row.
C4_InactiveWhateverOption ==
  [][\A r \in Req :
       (AtPollChecks(r) /\ ~polls[ctx[r].poll_id].is_active)
       => (Returns(r) /\ response'.result = "PollInactive" /\ votes' = votes)]_vars

\* C4 (amended): a cast-vote whose target poll is inactive fails and creates no
\* Vote row whatever existing option is supplied; with an option of that poll
\* the error is PollInactive, whether or not the voter has voted.
C4_InactiveOwnOption ==
  [][\A r \in Req :
       (AtPollChecks(r) /\ ~polls[ctx[r].poll_id].is_active)
       => /\ Returns(r)
          /\ response'.result \in AdmissionErrors
          /\ votes' = votes
          /\ (ctx[r].option_poll = ctx[r].poll_id => response'.result = "PollInactive")]_vars

\* C4 witness: a voter who has voted in a poll that was then deactivated has
\* tried again and got PollInactive.
C4_Witness ==
  /\ response.result = "PollInactive"
  /\ \E v \in votes : v.poll \in DOMAIN polls /\ ~polls[v.poll].is_active

\* C5 (as claimed): every cast-vote on a poll whose expiry lies before the
\* current time fails with PollExpired and creates no Vote row.
C5_ExpiredAlwaysPollExpired ==
  [][\A r \in Req :
       (AtPollChecks(r) /\ PastExpiry(polls[ctx[r].poll_id]))
       => (Returns(r) /\ response'.result = "PollExpired" /\ votes' = votes)]_vars

\* C5 (amended): a cast-vote on a poll whose expiry lies before the current
\* time fails and creates no Vote row; with an option of that poll and the
\* poll active the error is PollExpired; and PollExpired is only ever reported
\* for a poll whose expiry is set and lies before the clock at the check.
C5_ExpiredActiveOwnOption ==
  [][\A r \in Req :
       /\ (AtPollChecks(r) /\ PastExpiry(polls[ctx[r].poll_id]))
            => /\ Returns(r)
               /\ response'.result \in AdmissionErrors
               /\ votes' = votes
               /\ (ctx[r].option_poll = ctx[r].poll_id /\ polls[ctx[r].poll_id].is_active)
                    => response'.result = "PollExpired"
       /\ (AtPollChecks(r) /\ Returns(r) /\ response'.result = "PollExpired")
            => PastExpiry(polls[ctx[r].option_poll])]_vars

\* C5 witness: an active poll is past its expiry and a vote on it has just
\* been refused with PollExpired.
C5_Witness ==
  /\ response.result = "PollExpired"
  /\ \E p \in DOMAIN polls : polls[p].is_active /\ PastExpiry(polls[p])

\* C6 (as claimed): on an active, unexpired target poll, an option of another
\* poll fails with OptionPollMismatch whatever the state of that other poll,
\* and no Vote row is created.
C6_OtherPollOptionIsMismatch ==
  [][\A r \in Req :
       (/\ AtPollChecks(r)
        /\ polls[ctx[r].poll_id].is_active
        /\ ~PastExpiry(polls[ctx[r].poll_id])
        /\ ctx[r].option_poll # ctx[r].poll_id)
       => (Returns(r) /\ response'.result = "OptionPollMismatch" /\ votes' = votes)]_vars

\* C7: a cast-vote whose option_id identifies no Option row fails with
\* OptionNotFound at the first check, runs none of the later checks, and
\* creates no Vote row.
C7_OptionNotFound ==
  [][\A r \in Req :
       (StepsAt(r, "validate_option_id") /\ ctx[r].option_id \notin DOMAIN options)
       => /\ Returns(r)
          /\ response'.result = "OptionNotFound"
          /\ db' = db]_vars

\* C7 witness: a vote has just been refused with OptionNotFound while the poll
\* it was cast on and other options exist.
C7_Witness ==
  /\ response.result = "OptionNotFound"
  /\ DOMAIN polls # {}
  /\ DOMAIN options # {}

\* C8 (as claimed): once an identity has a vote in a poll, a later cast-vote
\* by it on that poll with an option of that poll fails with DuplicateVote.
C8_LaterVoteIsDuplicateVote ==
  [][\A r \in Req :
       (/\ pc[r] \in {"validate", "validate_duplicate"}
        /\ Returns(r)
        /\ ctx[r].option_poll = ctx[r].poll_id
        /\ Voted(ctx[r].poll_id, ctx[r].voter))
       => response'.result = "DuplicateVote"]_vars

\* C8 (amended): once an identity has a vote in a poll, a cast-vote by it on
\* that poll with an option of that poll never succeeds and leaves the Vote
\* rows unchanged; its pre-check reports DuplicateVote, and the poll checks
\* that run before it report PollInactive or PollExpired only when the poll
\* is inactive or past its expiry.
C8_LaterVoteFails ==
  [][\A r \in Req :
       (/\ pc[r] \in VotePcs \ {"validate_option_id"}
        /\ Steps(r)
        /\ ctx[r].option_poll = ctx[r].poll_id
        /\ Voted(ctx[r].poll_id, ctx[r].voter))
       => /\ votes' = votes
          /\ Returns(r) => response'.result # "Created"
          /\ pc[r] = "validate_duplicate"
               => (Returns(r) /\ response'.result = "DuplicateVote")
          /\ (pc[r] = "validate" /\ ctx[r].poll_id \in DOMAIN polls)
               => IF ~polls[ctx[r].poll_id].is_active
                  THEN Returns(r) /\ response'.result = "PollInactive"
                  ELSE IF PastExpiry(polls[ctx[r].poll_id])
                  THEN Returns(r) /\ response'.result = "PollExpired"
                  ELSE pc'[r] = "validate_duplicate"]_vars

\* C8 witness: the identity's vote is in the store and its retry has just been
\* refused with DuplicateVote.
C8_Witness == votes # {} /\ response.result = "DuplicateVote"

\* C9: a cast-vote attempt that ends in an AdmissionError has changed no Poll,
\* Option or Vote row: no statement that validates writes, and the statement
\* that reports the error writes nothing.
C9_AdmissionErrorChangesNothing ==
  [][\A r \in Req :
       /\ (pc[r] \in VotePcs \ {"create_vote"} /\ Steps(r)) => db' = db
       /\ (pc[r] \in VotePcs /\ Returns(r) /\ response'.result \in AdmissionErrors)
            => db' = db]_vars

\* C9 witness: rows exist and an attempt has just ended in DuplicateVote.
C9_Witness ==
  /\ response.result = "DuplicateVote"
  /\ \E v \in votes : v.poll \in DOMAIN polls /\ v.option \in DOMAIN options

\* The identifiers the resolver can give the requests of the clients.
ServerIdentifiers ==
  {get_voter_identifier(c, <<"k", ToString(i)>>) : c \in Clients, i \in 1..MaxRequests}

\* C10: a cast-vote with an option of the target poll passes every check the
\* state lets it pass (poll active and unexpired, no vote of the identity in
\* the poll), and its INSERT succeeds: exactly one Vote row is added, for the
\* target poll, the requested option and the resolved identifier, the response
\* names that poll and option, and no other row changes.
C10_ValidVoteSucceeds ==
  [][\A r \in Req :
       /\ (StepsAt(r, "validate_option_id") /\ ctx[r].option_id \in DOMAIN options)
            => pc'[r] = "validate"
       /\ (/\ AtPollChecks(r)
           /\ ctx[r].option_poll = ctx[r].poll_id
           /\ polls[ctx[r].poll_id].is_active
           /\ ~PastExpiry(polls[ctx[r].poll_id]))
            => pc'[r] = "validate_duplicate"
       /\ (StepsAt(r, "validate_duplicate") /\ ~Voted(ctx[r].poll_id, ctx[r].voter))
            => pc'[r] = "create_vote"
       /\ (/\ StepsAt(r, "create_vote")
           /\ ctx[r].poll_id \in DOMAIN polls
           /\ ctx[r].option_id \in DOMAIN options
           /\ ~Voted(ctx[r].poll_id, ctx[r].voter))
            => (Returns(r) /\ response'.result = "Created")
       /\ (StepsAt(r, "create_vote") /\ response'.result = "Created")
            => /\ \E v \in votes' \ votes :
                    /\ votes' = votes \cup {v}
                    /\ v.poll = ctx[r].poll_id
                    /\ v.option = ctx[r].option_id
                    /\ options[v.option].poll = v.poll
                    /\ v.voter_identifier = ctx[r].voter
                    /\ v.voter_identifier \in ServerIdentifiers
               /\ response'.poll_id = ctx[r].poll_id
               /\ response'.option_id = ctx[r].option_id
               /\ polls' = polls
               /\ options' = options]_vars

\* C10 witness: a vote has just been cast and its row is in the store.
C10_Witness ==
  /\ response.result = "Created"
  /\ \E v \in votes : v.poll = response.poll_id /\ v.option = response.option_id

\* C11: in every reachable state every Vote row references an existing Option
\* whose owning poll is the Vote's own poll.
C11_VoteOptionBelongsToPoll ==
  \A v \in votes : v.option \in DOMAIN options /\ options[v.option].poll = v.poll

\* C11 witness: a vote has just been cast while another poll has options of
\* its own.
C11_Witness ==
  /\ response.result = "Created"
  /\ response.option_id # 0
  /\ \E v \in votes : \E o \in DOMAIN options : options[o].poll # v.poll

\* C12: a Vote INSERT that violates a foreign key (the poll or the option was
\* deleted after validation) ends the attempt in an internal failure, neither
\* success nor DuplicateVote, and the Vote rows are as before.
C12_OtherInsertFailureIsInternal ==
  [][\A r \in Req :
       (/\ StepsAt(r, "create_vote")
        /\ (ctx[r].option_poll \notin DOMAIN polls \/ ctx[r].option_id \notin DOMAIN options))
       => /\ Returns(r)
          /\ response'.result = "IntegrityError"
          /\ response'.result \notin AdmissionErrors \cup {"Created"}
          /\ votes' = votes]_vars

\* C12 witness: an INSERT has just failed on a foreign key.
C12_Witness ==
  /\ response.result = "IntegrityError"
  /\ response.error = "foreign_key"

\* The options of poll p in the store.
OptionsOf(p) == {o \in DOMAIN options : options[o].poll = p}

\* h hundredths is count / total * 100 rounded to two decimals: no other
\* multiple of 0.01 is nearer.
NearestHundredth(h, count, total) ==
  /\ 2 * (h * total - count * 10000) <= total
  /\ 2 * (count * 10000 - h * total) <= total

\* C13: in every results response each option's percentage is
\* count / total_votes * 100 rounded to two decimals when total_votes > 0 and
\* 0.0 when total_votes = 0; a poll without votes reports total_votes = 0 and
\* 0.0 everywhere; 2 of 3 is 66.67 and 1 of 3 is 33.33.
C13_PercentageRounded ==
  (response.result = "OK" /\ response.poll_id # 0) =>
    /\ \A i \in DOMAIN response.options :
         LET e == response.options[i]
         IN /\ IF response.total_votes = 0
               THEN e.percentage = 0
               ELSE NearestHundredth(e.percentage, e.vote_count, response.total_votes)
            /\ (e.vote_count = 2 /\ response.total_votes = 3) => e.percentage = 6667
            /\ (e.vote_count = 1 /\ response.total_votes = 3) => e.percentage = 3333
    /\ (\A v \in votes : v.poll # response.poll_id) =>
         /\ response.total_votes = 0
         /\ \A i \in DOMAIN response.options : response.options[i].percentage = 0

\* C13 witness: a results response with counts 2 and 1 of 3 votes, reported as
\* 66.67 and 33.33.
C13_Witness ==
  /\ response.result = "OK"
  /\ response.total_votes = 3
  /\ \E i, j \in DOMAIN response.options :
       /\ response.options[i].vote_count = 2 /\ response.options[i].percentage = 6667
       /\ response.options[j].vote_count = 1 /\ response.options[j].percentage = 3333

\* C15: a results response lists exactly the poll's options, in ascending
\* display order and, for equal display order, ascending id; a second results
\* call on the unchanged store returns the same sequence.
C15_ResultsInDisplayOrder ==
  [][\A r \in Req :
       StepsAt(r, "results_serialize") =>
         LET out == response'.options
         IN /\ {out[i].id : i \in DOMAIN out} = OptionsOf(ctx[r].poll_id)
            /\ \A i, j \in DOMAIN out :
                 i < j => \/ options[out[i].id].order < options[out[j].id].order
                          \/ /\ options[out[i].id].order = options[out[j].id].order
                             /\ out[i].id < out[j].id
            /\ (response.result = "OK" /\ response.poll_id = ctx[r].poll_id)
                 => [i \in DOMAIN out |-> out[i].id]
                      = [i \in DOMAIN response.options |-> response.options[i].id]]_vars

\* C15 witness: options 1, 2, 3 of one poll with display orders 1, 0, 0 have
\* been listed as 2, 3, 1.
C15_Witness ==
  /\ response.result = "OK"
  /\ [i \in DOMAIN response.options |-> response.options[i].id] = <<2, 3, 1>>

\* C14 (as claimed): a results response lists exactly the poll's options, each
\* with the number of Vote rows that reference it, and total_votes is the sum
\* of the listed counts, also while votes are cast concurrently.
C14_CountsFromOneAggregate ==
  [][\A r \in Req :
       StepsAt(r, "results_serialize") =>
         LET out == response'.options
         IN /\ {out[i].id : i \in DOMAIN out} = OptionsOf(ctx[r].poll_id)
            /\ \A i \in DOMAIN out : out[i].vote_count = votes_total(out[i].id)
            /\ response'.total_votes =
                 SumOver([i \in DOMAIN out |-> out[i].vote_count], DOMAIN out)]_vars

\* C16 (as claimed): whenever no request is in progress, every existing poll
\* has at least 2 options.
C16_EveryPollHasTwoOptions ==
  (\A r \in Req : pc[r] = "idle") =>
    \A p \in DOMAIN polls : Cardinality(OptionsOf(p)) >= 2

\* C17 (as claimed): no results request reads a poll that exists with only
\* some of the options submitted with it.
C17_CreateIsAllOrNothing ==
  [][\A r, c \in Req :
       (/\ StepsAt(r, "results_serialize")
        /\ pc[c] = "create_options"
        /\ ctx[c].poll_id = ctx[r].poll_id
        /\ ctx[c].poll_id \in DOMAIN polls)
       => ctx[c].todo = <<>>]_vars

\* The text contains a tag: a "<" that opens one and a later ">".
ContainsMarkup(s) ==
  \E i \in DOMAIN s :
    /\ s[i] = "<"
    /\ OpensTag(SubSeq(s, i + 1, Len(s)))
    /\ \E j \in (i + 1)..Len(s) : s[j] = ">"

\* The defects of a create body: title missing, empty, over the limit or with
\* markup; description over the limit or with markup; an option text with
\* markup; fewer than 2 options. Lengths are those of the trimmed text.
Defective(data, opts) ==
  \/ data.title = {}
  \/ \E t \in data.title :
       Strip(t) = <<>> \/ Len(Strip(t)) > TitleMaxLength \/ ContainsMarkup(t)
  \/ \E d \in data.description :
       Len(Strip(d)) > DescriptionMaxLength \/ ContainsMarkup(d)
  \/ \E i \in DOMAIN opts : ContainsMarkup(opts[i].text)
  \/ Len(opts) < MinOptions

C19_EditValidatedAsCreate ==
  [][\A r \in Req :
       (StepsAt(r, "update_save") /\ polls' # polls) =>
         LET row == polls'[ctx[r].poll_id]
         IN /\ ~ContainsMarkup(row.title)
            /\ Len(row.title) <= TitleMaxLength
            /\ ~ContainsMarkup(row.description)
            /\ Len(row.description) <= DescriptionMaxLength]_vars

\* C20 (as claimed): an edit leaves Option and Vote rows, other polls and the
\* creation timestamp of its poll as they are; no step other than a poll
\* deletion changes or removes an existing Option or Vote row; the creation
\* timestamp of an existing poll never changes.
C20_EditChangesOnlyMutableFields ==
  [][/\ \A r \in Req :
          StepsAt(r, "update_save") =>
            /\ options' = options
            /\ votes' = votes
            /\ \A q \in DOMAIN polls : q # ctx[r].poll_id => (q \in DOMAIN polls' /\ polls'[q] = polls[q])
            /\ \A q \in DOMAIN polls' : q # ctx[r].poll_id => q \in DOMAIN polls
            /\ \A i \in ctx[r].instance :
                 ctx[r].poll_id \in DOMAIN polls' =>
                   polls'[ctx[r].poll_id].created_at = i.created_at
     /\ (DOMAIN polls \subseteq DOMAIN polls') =>
          /\ \A o \in DOMAIN options : o \in DOMAIN options' /\ options'[o] = options[o]
          /\ votes \subseteq votes'
     /\ \A q \in DOMAIN polls \cap DOMAIN polls' :
          polls'[q].created_at = polls[q].created_at]_vars

\* C21 (as claimed): once a poll has been deleted, the poll, its options and
\* its votes are absent and never reappear: a delete removes the poll with all
\* its Option and Vote rows, no Option or Vote row is ever without its poll,
\* and no step puts back a row whose id was deleted.
C21_DeletedNeverReappears ==
  [][/\ \A p \in DOMAIN polls \ DOMAIN polls' :
          /\ \A o \in DOMAIN options' : options'[o].poll # p
          /\ \A v \in votes' : v.poll # p
     /\ \A o \in DOMAIN options' : options'[o].poll \in DOMAIN polls'
     /\ \A v \in votes' : v.poll \in DOMAIN polls' /\ v.option \in DOMAIN options'
     /\ \A p \in DOMAIN polls' \ DOMAIN polls : p >= nextPollId
     /\ \A o \in DOMAIN options' \ DOMAIN options : o >= nextOptionId
     /\ \A v \in votes' \ votes : v.id >= nextVoteId]_vars

\* The address a request gives: the first hop of the forwarded-address header
\* if that gives one, else the address of the direct connection.
SpecifiedAddress(c) ==
  IF Strip(FirstField(c.xff)) # <<>> THEN Strip(FirstField(c.xff)) ELSE c.remote

\* The identifier in the specified priority: user, then address, then session.
SpecifiedIdentifier(c, key) ==
  IF c.is_authenticated THEN <<"user_">> \o c.user_id
  ELSE IF SpecifiedAddress(c) # <<>> THEN <<"ip_">> \o SpecifiedAddress(c)
  ELSE <<"session_">> \o key

\* C22 (as claimed): the identifier resolved for a request is "user_" + id
\* for an authenticated principal; otherwise "ip_" + address with the first hop
\* of the forwarded header if it gives an address and else the direct
\* connection address; "session_" + token only when neither gives an address.
C22_FixedPriority ==
  [][\A r \in Req, c \in Callers, p \in PollIds :
       (has_voted(r, c, p) /\ pc'[r] = "has_voted_query")
       => ctx'[r].voter = SpecifiedIdentifier(c, sessions'[c])]_vars

\* C23: resolution always gives an identifier, which depends on the signals
\* and the session's token alone; on the session fallback a token is created
\* only when the session has none, and is the one every later call returns; a
\* token once created never changes; no token is allocated when the user or
\* the address branch is taken.
C23_DeterministicResolution ==
  [][/\ \A c \in Callers : sessions[c] # <<>> => sessions'[c] = sessions[c]
     /\ \A r \in Req, c \in Callers, p \in PollIds :
          (has_voted(r, c, p) /\ pc'[r] = "has_voted_query") =>
            /\ ctx'[r].voter # <<>>
            /\ Head(ctx'[r].voter) \in {"user_", "ip_", "session_"}
            /\ IF Head(ctx'[r].voter) = "session_"
               THEN /\ sessions'[c] # <<>>
                    /\ ctx'[r].voter = <<"session_">> \o sessions'[c]
                    /\ \A d \in Callers \ {c} :
                         sessions'[d] = sessions[d] /\ sessions'[d] # sessions'[c]
               ELSE /\ sessions' = sessions
                    /\ ctx'[r].voter = get_voter_identifier(c, <<>>)]_vars

\* C23 witness: a call on the session fallback has returned an identifier and
\* a later call of the same session, now in progress, has resolved the same.
C23_Witness ==
  /\ response.voter_identifier # <<>>
  /\ Head(response.voter_identifier) = "session_"
  /\ \E r \in Req : pc[r] = "has_voted_query" /\ ctx[r].voter = response.voter_identifier
  /\ \E c, d \in Callers : c # d /\ sessions[c] # <<>> /\ sessions[d] # <<>>

\* C24: has_voted answers true exactly when a Vote row exists for the poll and
\* the identifier resolved from the request, whatever rows other polls hold;
\* it returns that identifier and changes no Poll, Option or Vote row; and a
\* Vote row stays as long as its poll does, so the answer stays true after the
\* identity's vote.
C24_HasVotedReportsVoteRow ==
  [][/\ \A r \in Req, c \in Clients, p \in PollIds :
          has_voted(r, c, p) =>
            /\ db' = db
            /\ pc'[r] = "has_voted_query" =>
                 /\ ctx'[r].poll_id = p
                 /\ ctx'[r].voter = get_voter_identifier(c, sessions'[c])
     /\ \A r \in Req :
          StepsAt(r, "has_voted_query") =>
            /\ Returns(r)
            /\ response'.result =
                 IF \E v \in votes :
                      v.poll = ctx[r].poll_id /\ v.voter_identifier = ctx[r].voter
                 THEN "HasVoted" ELSE "HasNotVoted"
            /\ response'.voter_identifier = ctx[r].voter
            /\ db' = db
     /\ \A v \in votes : v.poll \in DOMAIN polls' => v \in votes']_vars

\* C24 witness: has_voted has just answered true for an identity whose vote is
\* in the store.
C24_Witness ==
  /\ response.result = "HasVoted"
  /\ \E v \in votes : v.voter_identifier = response.voter_identifier

\* C25 (as claimed): every option submitted with a poll is inserted with its
\* text and display order, and the detail operation returns the poll with
\* exactly the options it was created with, none missing and none added, in
\* ascending display order with ties by id.
C25_CreateDetailRoundTrip ==
  [][\A r \in Req :
       /\ (StepsAt(r, "create_options") /\ ctx[r].todo # <<>> /\ options' # options) =>
            options' = Put(options, nextOptionId,
                           [poll |-> ctx[r].poll_id, text |-> Head(ctx[r].todo).text,
                            order |-> Head(ctx[r].todo).order])
       /\ StepsAt(r, "retrieve_options") =>
            LET out == response'.options
            IN /\ Returns(r)
               /\ response'.result = "Retrieved"
               /\ {out[i].id : i \in DOMAIN out} = OptionsOf(ctx[r].poll_id)
               /\ \A i \in DOMAIN out :
                    /\ out[i].text = options[out[i].id].text
                    /\ out[i].order = options[out[i].id].order
               /\ \A i, j \in DOMAIN out :
                    i < j => \/ out[i].order < out[j].order
                             \/ out[i].order = out[j].order /\ out[i].id < out[j].id
               /\ \A c \in Req :
                    (pc[c] = "create_options" /\ ctx[c].poll_id = ctx[r].poll_id)
                    => ctx[c].todo = <<>>
               /\ Len(out) >= MinOptions]_vars

\* C26 (as claimed): no step of a results request changes a Poll, Option or
\* Vote row: the store after the step equals the store before it, also when
\* other requests run in between its steps.
C26_ResultsIsPureRead ==
  [][\A r \in DOMAIN pc :
       (/\ pc[r] \in {"idle", "results_annotate", "results_set", "results_serialize"}
        /\ pc'[r] \in {"idle", "results_annotate", "results_set", "results_serialize"}
        /\ Steps(r))
       => db' = db]_vars

\* C27 (as claimed): every Vote row is inserted at a moment when its poll is
\* active and not past its expiry, also when an edit or the clock changed
\* that between the validation of the vote and its INSERT.
C27_VoteCommittedOnOpenPoll ==
  [][\A r \in Req :
       StepsAt(r, "create_vote") =>
         \A v \in votes' \ votes :
           /\ v.poll \in DOMAIN polls
           /\ polls[v.poll].is_active
           /\ ~PastExpiry(polls[v.poll])]_vars

\* The total_votes a results request computes for poll p on the store
\* (views.py 289-294): the sum of the annotated counts of its options.
ReportedTotal(p) ==
  SumOver([o \in OptionsOf(p) |-> votes_total(o)], OptionsOf(p))

\* C28: in every reachable state, for every poll the total the results
\* aggregate gives equals the number of Vote rows of the poll, which equals
\* the number of distinct voter identifiers among them; and a results request
\* reports the total its aggregate query computed.
C28_TotalCountsEachVoteOnce ==
  /\ [](\A p \in DOMAIN polls :
          /\ ReportedTotal(p) = Cardinality({v \in votes : v.poll = p})
          /\ ReportedTotal(p) =
               Cardinality({v.voter_identifier : v \in {w \in votes : w.poll = p}}))
  /\ [][\A r \in Req :
          /\ StepsAt(r, "results_annotate") =>
               ctx'[r].total = Cardinality({v \in votes : v.poll = ctx[r].poll_id})
          /\ StepsAt(r, "results_serialize") => response'.total_votes = ctx[r].total]_vars

\* C28 witness: results has reported total_votes = 2 for a poll in which two
\* identities have voted.
C28_Witness ==
  /\ response.result = "OK"
  /\ response.total_votes = 2
  /\ Cardinality({v.voter_identifier : v \in {w \in votes : w.poll = response.poll_id}}) = 2

\* C29: a cast-vote is refused as a duplicate, by the pre-check or by the
\* uniqueness constraint, only when a Vote row of the same identity in the
\* same poll exists: votes of other identities in the poll and votes of the
\* identity in other polls never cause it, whatever requests run in between.
C29_DuplicateScopedToPollAndIdentity ==
  [][\A r \in Req :
       (/\ pc[r] \in VotePcs
        /\ Returns(r)
        /\ (response'.result = "DuplicateVote" \/ response'.error = "unique_vote_per_poll"))
       => \E v \in votes :
            v.poll = ctx[r].poll_id /\ v.voter_identifier = ctx[r].voter]_vars

\* C29 witness: an identity that has a vote in one poll has just cast a vote
\* in another poll.
C29_Witness ==
  /\ response.result = "Created"
  /\ response.option_id # 0
  /\ \E v, w \in votes :
       /\ v.voter_identifier = w.voter_identifier
       /\ v.poll # w.poll
       /\ w.poll = response.poll_id
       /\ w.id > v.id
====
